---- MODULE Spec2Model ----
(***************************************************************************)
(* Model of the 2D racing game: car physics and collision resolution       *)
(* (car.py), the track mask (track.py), the global tuning store            *)
(* (game_settings.py), the keyboard tuning of main.py and the terminal     *)
(* settings thread of main_desktop.py (settings_interface.py).             *)
(*                                                                         *)
(* Python floats are modelled as fixed-point integers with Scale units     *)
(* per 1.0 (positions in 1/1000 pixel, angles in 1/1000 degree); every     *)
(* product and quotient is truncated toward zero to that resolution.       *)
(***************************************************************************)
EXTENDS Integers, Sequences, FiniteSets, TLC

\* ------------------------------------------------------------------------
\* Fixed-point arithmetic
\* ------------------------------------------------------------------------
Scale == 1000

Abs(a) == IF a < 0 THEN -a ELSE a
Min(a, b) == IF a < b THEN a ELSE b
Max(a, b) == IF a > b THEN a ELSE b

\* quotient truncated toward zero, any signs, b # 0
TDiv(a, b) ==
  IF (a >= 0) = (b > 0) THEN Abs(a) \div Abs(b) ELSE -(Abs(a) \div Abs(b))

\* product of two fixed-point numbers
Mul(a, b) == TDiv(a * b, Scale)

\* int(): truncation of a fixed-point number toward zero to an integer
Trunc(a) == TDiv(a, Scale)

RECURSIVE SqrtIter(_, _, _)
SqrtIter(n, lo, hi) ==
  IF lo >= hi THEN lo
  ELSE LET mid == (lo + hi + 1) \div 2
       IN  IF mid * mid <= n THEN SqrtIter(n, mid, hi)
                             ELSE SqrtIter(n, lo, mid - 1)

\* math.sqrt on an integer argument, rounded down
ISqrt(n) == SqrtIter(n, 0, 46340)

\* math.sqrt(a**2 + b**2) of two fixed-point numbers, as a fixed-point number
Hypot(a, b) == ISqrt(a * a + b * b)

\* sin of 0..90 whole degrees, times Scale
SinTab ==
  << 0,17,35,52,70,87,105,122,139,156,174,191,208,225,242,259,276,292,309,
     326,342,358,375,391,407,423,438,454,469,485,500,515,530,545,559,574,
     588,602,616,629,643,656,669,682,695,707,719,731,743,755,766,777,788,
     799,809,819,829,839,848,857,866,875,883,891,899,906,914,921,927,934,
     940,946,951,956,961,966,970,974,978,982,985,988,990,993,995,996,998,
     999,999,1000,1000 >>

\* sin of a whole number of degrees
SinDeg(d) ==
  LET e == d % 360
  IN  IF e <= 90 THEN SinTab[e + 1]
      ELSE IF e <= 180 THEN SinTab[180 - e + 1]
      ELSE IF e <= 270 THEN -SinTab[e - 180 + 1]
      ELSE -SinTab[360 - e + 1]

\* math.sin(math.radians(a)), a in 1/Scale degrees, linear between degrees
Sin(a) ==
  LET m == a % (360 * Scale)
      d == m \div Scale
      f == m % Scale
  IN  SinDeg(d) + TDiv((SinDeg(d + 1) - SinDeg(d)) * f, Scale)

\* math.cos(math.radians(a))
Cos(a) == Sin(a + 90 * Scale)

\* ------------------------------------------------------------------------
\* settings.py
\* ------------------------------------------------------------------------
SCREEN_WIDTH == 1280
SCREEN_HEIGHT == 720

TRACK_COLORS == [TRACK_SURFACE |-> "black", WALL |-> "white",
                 START_POSITION |-> "blue", SLOW_DOWN |-> "green"]

SPORTS_CAR == [acceleration |-> 300, max_speed |-> 8000, friction |-> 950,
               turn_speed |-> 6000, size |-> <<24, 14>>]

TRUCK == [acceleration |-> 200, max_speed |-> 6000, friction |-> 930,
          turn_speed |-> 5000, size |-> <<28, 18>>]

PHYSICS_ADJUSTMENT == [turn_speed_increment |-> 200,
                       acceleration_increment |-> 50,
                       stickiness_increment |-> 100,
                       max_adjustment |-> 2000,
                       min_adjustment |-> 200]

SLOW_DOWN_MULTIPLIER == 500
WALL_STICKINESS == 400
WALL_BOUNCE_FACTOR == 600
REVERSE_SPEED_MULTIPLIER == 500

\* ------------------------------------------------------------------------
\* Track masks (the collision-mask image is an input of the program).
\* A mask is given by its start-marker pixels (in no particular order), its
\* slow-down rectangles, its rectangles of a colour that is none of
\* TRACK_COLORS (COLORS['GRAY']) and its wall rectangles <<x1, y1, x2, y2>>
\* (inclusive) over a drivable background.
\* ------------------------------------------------------------------------
Everywhere == <<0, 0, SCREEN_WIDTH - 1, SCREEN_HEIGHT - 1>>

Masks ==
  << \* 1: wall one step ahead of the first marker, wall strip behind
     [markers |-> << <<150, 340>>, <<150, 380>> >>,
      walls |-> { <<0, 0, 1279, 317>>, <<0, 340, 1279, 345>> },
      slow |-> {}, gray |-> {}],
     \* 2: wall a short run ahead, wall strip behind
     [markers |-> << <<150, 340>>, <<150, 380>> >>,
      walls |-> { <<0, 0, 1279, 316>>, <<0, 340, 1279, 345>> },
      slow |-> {}, gray |-> {}],
     \* 3: wall one step ahead, slow-down patch behind
     [markers |-> << <<150, 340>>, <<150, 380>> >>,
      walls |-> { <<0, 0, 1279, 317>> },
      slow |-> { <<0, 341, 1279, 350>> }, gray |-> {}],
     \* 4: markers enclosed by wall, next to the left screen edge
     [markers |-> << <<5, 340>>, <<5, 380>> >>,
      walls |-> { Everywhere },
      slow |-> {}, gray |-> {}],
     \* 5: markers enclosed by wall
     [markers |-> << <<150, 340>>, <<150, 380>> >>,
      walls |-> { Everywhere },
      slow |-> {}, gray |-> {}],
     \* 6: open ground without markers, two slow-down patches
     [markers |-> << >>,
      walls |-> {},
      slow |-> { <<0, 355, 1279, 358>>, <<0, 200, 1279, 298>> }, gray |-> {}],
     \* 7: two start markers of five pixels each
     [markers |-> << <<150, 339>>, <<149, 340>>, <<150, 340>>, <<151, 340>>,
                     <<150, 341>>, <<150, 379>>, <<149, 380>>, <<150, 380>>,
                     <<151, 380>>, <<150, 381>> >>,
      walls |-> { <<0, 0, 1279, 317>> },
      slow |-> {}, gray |-> {}],
     \* 8: the edge of the wall ahead is one row of gray pixels
     [markers |-> << <<150, 340>>, <<150, 380>> >>,
      walls |-> { <<0, 0, 1279, 317>> },
      slow |-> {}, gray |-> { <<0, 318, 1279, 318>> }],
     \* 9: wall one step ahead, wall strip behind, wall close on the right
     [markers |-> << <<150, 340>>, <<150, 380>> >>,
      walls |-> { <<0, 0, 1279, 317>>, <<0, 340, 1279, 345>>,
                  <<164, 0, 1279, 719>> },
      slow |-> {}, gray |-> {}],
     \* 10: markers next to the left screen edge, wall one step ahead
     [markers |-> << <<5, 340>>, <<5, 380>> >>,
      walls |-> { <<0, 0, 1279, 317>> },
      slow |-> {}, gray |-> {}],
     \* 11: wall one step ahead, and a wall block under the rear hull points
     [markers |-> << <<150, 340>>, <<150, 380>> >>,
      walls |-> { <<0, 0, 1279, 317>>, <<151, 330, 1279, 338>> },
      slow |-> {}, gray |-> {}]
  >>

NumMasks == Len(Masks)

\* Track.mask_surface is a mask image (1..NumMasks), None (NoMask) or the
\* surface drawn by _create_fallback_track (FallbackMask)
NoMask == 0
FallbackMask == NumMasks + 1

InRect(r, px, py) == r[1] <= px /\ px <= r[3] /\ r[2] <= py /\ py <= r[4]

\* Track._create_fallback_track, lines 67 and 71: the rectangles
\* <<left, top, width, height>> of the two ellipses
track_rect == <<100, 100, SCREEN_WIDTH - 200, SCREEN_HEIGHT - 200>>
inner_rect == <<200, 200, SCREEN_WIDTH - 400, SCREEN_HEIGHT - 400>>

\* Track._create_fallback_track, lines 85-88
FallbackStarts == << <<150, SCREEN_HEIGHT \div 2 - 20>>,
                     <<150, SCREEN_HEIGHT \div 2 + 20>> >>

RECURSIVE GCD(_, _)
GCD(a, b) == IF b = 0 THEN a ELSE GCD(b, a % b)

\* pygame.draw.ellipse(surface, colour, rect), filled: the pixels within the
\* ellipse inscribed in rect.  Offsets from the centre are doubled, and both
\* sides are divided by the square of the common factor of width and height.
InEllipse(r, px, py) ==
  LET dx == 2 * px - (2 * r[1] + r[3] - 1)
      dy == 2 * py - (2 * r[2] + r[4] - 1)
      a == r[3] \div GCD(r[3], r[4])
      b == r[4] \div GCD(r[3], r[4])
  IN  (dx * b) * (dx * b) + (dy * a) * (dy * a) <= (r[3] * b) * (r[3] * b)

\* pygame.draw.circle(surface, colour, center, radius), filled
InCircle(center, radius, px, py) ==
  (px - center[1]) * (px - center[1]) + (py - center[2]) * (py - center[2])
    <= radius * radius

\* Track._create_fallback_track, lines 75-92: the mask surface, drawn in
\* this order: wall fill, track ellipse, inner ellipse, start circles
FallbackAt(px, py) ==
  IF \E i \in 1..Len(FallbackStarts) : InCircle(FallbackStarts[i], 5, px, py)
    THEN TRACK_COLORS.START_POSITION
  ELSE IF InEllipse(inner_rect, px, py) THEN TRACK_COLORS.WALL
  ELSE IF InEllipse(track_rect, px, py) THEN TRACK_COLORS.TRACK_SURFACE
  ELSE TRACK_COLORS.WALL

\* mask_surface.get_at((x, y))[:3] for a pixel inside the raster
GetAt(t, px, py) ==
  IF t = FallbackMask THEN FallbackAt(px, py)
  ELSE IF \E i \in 1..Len(Masks[t].markers) : Masks[t].markers[i] = <<px, py>>
    THEN TRACK_COLORS.START_POSITION
  ELSE IF \E r \in Masks[t].slow : InRect(r, px, py)
    THEN TRACK_COLORS.SLOW_DOWN
  ELSE IF \E r \in Masks[t].gray : InRect(r, px, py)
    THEN "gray"
  ELSE IF \E r \in Masks[t].walls : InRect(r, px, py)
    THEN TRACK_COLORS.WALL
  ELSE TRACK_COLORS.TRACK_SURFACE

\* Track.check_collision
check_collision_NoLowerBound(t, px, py) ==
  IF t = NoMask \/ px >= SCREEN_WIDTH \/ py >= SCREEN_HEIGHT
    THEN TRACK_COLORS.WALL
    ELSE GetAt(t, px, py)

check_collision(t, px, py) ==
  IF t = NoMask \/ px < 0 \/ px >= SCREEN_WIDTH \/ py < 0 \/ py >= SCREEN_HEIGHT
    THEN TRACK_COLORS.WALL
    ELSE GetAt(t, px, py)

\* the pixels of a mask image that have the START_POSITION colour
BluePixels(t) == { Masks[t].markers[i] : i \in 1..Len(Masks[t].markers) }

\* Track._find_start_positions, lines 105-106: the place of pixel p in the
\* scan, x in the outer loop and y in the inner loop
ScanIndex_RowMajor(p) == p[2] * SCREEN_WIDTH + p[1]

ScanIndex(p) == p[1] * SCREEN_HEIGHT + p[2]

\* the pixels in the order the scan meets them
RECURSIVE InScanOrder(_)
InScanOrder(pixels) ==
  IF pixels = {} THEN << >>
  ELSE LET first == CHOOSE p \in pixels :
                      \A q \in pixels : ScanIndex(p) <= ScanIndex(q)
       IN  <<first>> \o InScanOrder(pixels \ {first})

\* Track._find_start_positions: the blue pixels, appended as they are met
find_start_positions(t) == InScanOrder(BluePixels(t))

\* Track.get_start_positions: the list left by __init__, by
\* _find_start_positions or by _create_fallback_track
get_start_positions(t) ==
  IF t = NoMask THEN << >>
  ELSE IF t = FallbackMask THEN FallbackStarts
  ELSE find_start_positions(t)

\* RacingGame._initialize_game: the start position of player p (1 or 2)
StartPositionOf(t, p) ==
  LET sp == get_start_positions(t)
      use == IF Len(sp) < 2
               THEN << <<SCREEN_WIDTH \div 4, SCREEN_HEIGHT \div 2>>,
                       <<SCREEN_WIDTH \div 4, SCREEN_HEIGHT \div 2 + 50>> >>
               ELSE sp
  IN  use[p]

\* ------------------------------------------------------------------------
\* game_settings.py
\* ------------------------------------------------------------------------
\* GameSettings.__init__
NewGameSettings == [wall_stickiness |-> WALL_STICKINESS,
                    wall_bounce_factor |-> WALL_BOUNCE_FACTOR]

\* GameSettings.adjust_stickiness
adjust_stickiness_NoCeiling(g, increase) ==
  LET increment == PHYSICS_ADJUSTMENT.stickiness_increment
  IN  IF increase
        THEN [g EXCEPT !.wall_stickiness = g.wall_stickiness + increment]
        ELSE [g EXCEPT !.wall_stickiness = Max(0, g.wall_stickiness - increment)]

adjust_stickiness(g, increase) ==
  LET increment == PHYSICS_ADJUSTMENT.stickiness_increment
  IN  IF increase
        THEN [g EXCEPT !.wall_stickiness = Min(Scale, g.wall_stickiness + increment)]
        ELSE [g EXCEPT !.wall_stickiness = Max(0, g.wall_stickiness - increment)]

\* ------------------------------------------------------------------------
\* car.py
\* ------------------------------------------------------------------------
START_ANGLE == 270 * Scale

\* Car.__init__
NewCar(pos, stats) ==
  [x |-> pos[1] * Scale, y |-> pos[2] * Scale,
   start_x |-> pos[1] * Scale, start_y |-> pos[2] * Scale,
   velocity_x |-> 0, velocity_y |-> 0,
   angle |-> START_ANGLE, start_angle |-> START_ANGLE,
   acceleration |-> stats.acceleration,
   max_speed |-> stats.max_speed,
   current_max_speed |-> stats.max_speed,
   friction |-> stats.friction,
   turn_speed |-> stats.turn_speed,
   size |-> stats.size,
   on_slow_surface |-> FALSE,
   is_reversing |-> FALSE]

\* Car._calculate_collision_points
collision_points(c) ==
  LET width == c.size[1]
      height == c.size[2]
  IN  << <<width \div 2, 0>>, <<width - 2, 2>>, <<width - 2, height - 2>>,
         <<2, height - 2>>, <<2, 2>> >>

\* Car._get_collision_points_world with the car placed at (x, y)
collision_points_world(c, x, y) ==
  LET cos_a == Cos(c.angle)
      sin_a == Sin(c.angle)
      pts == collision_points(c)
  IN  [i \in 1..Len(pts) |->
         << Trunc(x + pts[i][1] * cos_a - pts[i][2] * sin_a),
            Trunc(y + pts[i][1] * sin_a + pts[i][2] * cos_a) >>]

IsWallPoint(t, p) == check_collision(t, p[1], p[2]) = TRACK_COLORS.WALL

\* Car._check_collision
CheckCollision(c, new_x, new_y, t) ==
  LET wall_collisions ==
        SelectSeq(collision_points_world(c, new_x, new_y),
                  LAMBDA p : IsWallPoint(t, p))
  IN  [collision |-> Len(wall_collisions) > 0,
       wall_points |-> wall_collisions,
       collision_count |-> Len(wall_collisions)]

Directions == << <<-1, -1>>, <<-1, 0>>, <<-1, 1>>, <<0, -1>>,
                 <<0, 1>>, <<1, -1>>, <<1, 0>>, <<1, 1>> >>

\* Car._calculate_wall_normal, lines 388-398: the samples <<point, direction>>
\* around the first three wall points that are not on a wall
OpenSamples(wall_points, t) ==
  { ij \in (1..Min(3, Len(wall_points))) \X (1..8) :
      check_collision(t,
         wall_points[ij[1]][1] + Directions[ij[2]][1] * 2,
         wall_points[ij[1]][2] + Directions[ij[2]][2] * 2)
      # TRACK_COLORS.WALL }

\* the sum of the offsets of these samples along axis k (1: x, 2: y)
SumToward(open, k) ==
  Cardinality({ ij \in open : Directions[ij[2]][k] = 1 })
  - Cardinality({ ij \in open : Directions[ij[2]][k] = -1 })

\* (dx, dy) / length, or the fallback when the length is zero
UnitVector(dx, dy, length, fallback) ==
  IF length > 0 THEN << TDiv(dx * Scale, length), TDiv(dy * Scale, length) >>
                ELSE fallback

\* Car._calculate_wall_normal, lines 400-420: normalisation and fallbacks
NormalFrom_TowardPoint(c, wall_points, normal_x, normal_y) ==
  UnitVector(normal_x * Scale, normal_y * Scale,
             Hypot(normal_x * Scale, normal_y * Scale),
             UnitVector(wall_points[1][1] * Scale - c.x,
                        wall_points[1][2] * Scale - c.y,
                        Hypot(wall_points[1][1] * Scale - c.x,
                              wall_points[1][2] * Scale - c.y),
                        <<0, -Scale>>))

NormalFrom(c, wall_points, normal_x, normal_y) ==
  UnitVector(normal_x * Scale, normal_y * Scale,
             Hypot(normal_x * Scale, normal_y * Scale),
             UnitVector(c.x - wall_points[1][1] * Scale,
                        c.y - wall_points[1][2] * Scale,
                        Hypot(c.x - wall_points[1][1] * Scale,
                              c.y - wall_points[1][2] * Scale),
                        <<0, -Scale>>))

NormalOf(c, wall_points, open) ==
  NormalFrom(c, wall_points, SumToward(open, 1), SumToward(open, 2))

\* Car._calculate_wall_normal
calculate_wall_normal(c, wall_points, t) ==
  IF Len(wall_points) = 0 THEN <<0, -Scale>>
  ELSE NormalOf(c, wall_points, OpenSamples(wall_points, t))

\* Car._reset_to_start
reset_to_start(c) ==
  [c EXCEPT !.x = c.start_x, !.y = c.start_y,
            !.velocity_x = 0, !.velocity_y = 0,
            !.angle = c.start_angle, !.is_reversing = FALSE]

\* Car._calculate_wall_normal was not called
NoNormal == <<0, 0>>

\* Car._find_safe_position was not called
NoCandidate == -2

\* the candidates of Car._find_safe_position, numbered in loop order
NumRadii == 10
NumAngles == 24
CandidateX(c, i) == c.x + Cos(15 * (i % NumAngles) * Scale) * (5 + 2 * (i \div NumAngles))
CandidateY(c, i) == c.y + Sin(15 * (i % NumAngles) * Scale) * (5 + 2 * (i \div NumAngles))

\* the candidates of one radius that have no probe point on a wall
SafeInRing(c, t, ring) ==
  { i \in (ring * NumAngles)..(ring * NumAngles + NumAngles - 1) :
      ~CheckCollision(c, CandidateX(c, i), CandidateY(c, i), t).collision }

\* the first candidate without a collision, searching ring by ring; -1 if none
RECURSIVE FirstSafe(_, _, _)
FirstOf_Last(safe, c, t, ring) ==
  IF safe # {} THEN CHOOSE i \in safe : \A j \in safe : i >= j
               ELSE FirstSafe(c, t, ring + 1)

FirstOf(safe, c, t, ring) ==
  IF safe # {} THEN CHOOSE i \in safe : \A j \in safe : i <= j
               ELSE FirstSafe(c, t, ring + 1)

FirstSafe(c, t, ring) ==
  IF ring >= NumRadii THEN -1
  ELSE FirstOf(SafeInRing(c, t, ring), c, t, ring)

\* Car._find_safe_position, lines 439-448: take candidate i, or reset
MoveToCandidate(c, i) ==
  IF i >= 0
    THEN [car |-> [c EXCEPT !.x = CandidateX(c, i), !.y = CandidateY(c, i),
                            !.velocity_x = Mul(c.velocity_x, 300),
                            !.velocity_y = Mul(c.velocity_y, 300)],
          outcome |-> "Repositioned", damped_speed |-> 0,
          candidate |-> i, search_from |-> c,
          normal |-> NoNormal, damped |-> <<c.velocity_x, c.velocity_y>>]
    ELSE [car |-> reset_to_start(c), outcome |-> "Reset", damped_speed |-> 0,
          candidate |-> i, search_from |-> c,
          normal |-> NoNormal, damped |-> <<c.velocity_x, c.velocity_y>>]

\* Car._find_safe_position
find_safe_position(c, t) == MoveToCandidate(c, FirstSafe(c, t, 0))

\* Car._handle_collision, lines 322-331: the velocity reduction
DampVelocity_Amplifying(c, collision_count, g) ==
  [c EXCEPT
     !.velocity_x = Mul(c.velocity_x,
                        Mul(g.wall_bounce_factor,
                            Scale + Mul(200 + collision_count * 100, g.wall_stickiness))),
     !.velocity_y = Mul(c.velocity_y,
                        Mul(g.wall_bounce_factor,
                            Scale + Mul(200 + collision_count * 100, g.wall_stickiness)))]

DampVelocity(c, collision_count, g) ==
  [c EXCEPT
     !.velocity_x = Mul(c.velocity_x,
                        Mul(g.wall_bounce_factor,
                            Scale - Mul(200 + collision_count * 100, g.wall_stickiness))),
     !.velocity_y = Mul(c.velocity_y,
                        Mul(g.wall_bounce_factor,
                            Scale - Mul(200 + collision_count * 100, g.wall_stickiness)))]

\* Car._handle_collision, lines 342-348: partial reflection off the wall
ReflectBy(c, n, dot_product) ==
  IF dot_product < 0
    THEN [c EXCEPT
            !.velocity_x = c.velocity_x - TDiv(6 * dot_product * n[1], 10 * Scale),
            !.velocity_y = c.velocity_y - TDiv(6 * dot_product * n[2], 10 * Scale)]
    ELSE c

Reflect(c, n) ==
  ReflectBy(c, n, Mul(c.velocity_x, n[1]) + Mul(c.velocity_y, n[2]))

\* Car._handle_collision, lines 359-360: the stepped-back pose is taken only
\* when none of its probe points is on a wall
SlideAccepted_Untested(c, test_x, test_y, t) == TRUE

SlideAccepted(c, test_x, test_y, t) ==
  ~CheckCollision(c, test_x, test_y, t).collision

\* Car._handle_collision, lines 366-367: the safe position search runs when
\* the current pose collides or the damped speed is below 0.3
NeedsSafeSearch_Both(c, speed, t) ==
  CheckCollision(c, c.x, c.y, t).collision /\ speed < 300

NeedsSafeSearch(c, speed, t) ==
  CheckCollision(c, c.x, c.y, t).collision \/ speed < 300

\* Car._handle_collision, lines 365-368
SearchOrStay(c, speed, t) ==
  IF NeedsSafeSearch(c, speed, t)
    THEN [find_safe_position(c, t) EXCEPT !.damped_speed = speed]
    ELSE [car |-> c, outcome |-> "Stayed", damped_speed |-> speed,
          candidate |-> NoCandidate, search_from |-> c,
          normal |-> NoNormal, damped |-> <<c.velocity_x, c.velocity_y>>]

\* Car._handle_collision, lines 336-363: above speed 0.1 try the pose three
\* pixels along the wall normal
SlideOrSearch(damped, speed, reflected, test_x, test_y, t) ==
  IF speed > 100 /\ SlideAccepted(reflected, test_x, test_y, t)
    THEN [car |-> [reflected EXCEPT !.x = test_x, !.y = test_y],
          outcome |-> "Sliding", damped_speed |-> speed,
          candidate |-> NoCandidate, search_from |-> reflected,
          normal |-> NoNormal,
          damped |-> <<damped.velocity_x, damped.velocity_y>>]
    ELSE SearchOrStay(IF speed > 100 THEN reflected ELSE damped, speed, t)

\* Car._handle_collision, lines 333-338: the wall normal is computed when the
\* damped speed is above 0.1
Noted(resolved, damped, speed, n) ==
  [resolved EXCEPT !.normal = IF speed > 100 THEN n ELSE NoNormal,
                   !.damped = <<damped.velocity_x, damped.velocity_y>>]

WithNormal(damped, n, t) ==
  Noted(SlideOrSearch(damped, Hypot(damped.velocity_x, damped.velocity_y),
                      Reflect(damped, n), damped.x + n[1] * 3,
                      damped.y + n[2] * 3, t),
        damped, Hypot(damped.velocity_x, damped.velocity_y), n)

\* Car._handle_collision
handle_collision(c, collision_result, t, g) ==
  WithNormal(DampVelocity(c, collision_result.collision_count, g),
             calculate_wall_normal(c, collision_result.wall_points, t), t)

\* the key states read by Car.update
KeyStates == [accelerate : BOOLEAN, brake : BOOLEAN,
              turn_left : BOOLEAN, turn_right : BOOLEAN]

NoKeys == [accelerate |-> FALSE, brake |-> FALSE,
           turn_left |-> FALSE, turn_right |-> FALSE]

\* Car.update, lines 177-187: the reversing flag
IsReversing(c) ==
  /\ Mul(c.velocity_x, Cos(c.angle)) + Mul(c.velocity_y, Sin(c.angle)) < 0
  /\ Hypot(c.velocity_x, c.velocity_y) > 100

\* Car.update, lines 189-201: turning by turn_amount, above speed 0.1
Turn(c, k, turn_amount) ==
  [c EXCEPT !.angle = c.angle
                      - (IF k.turn_left THEN turn_amount ELSE 0)
                      + (IF k.turn_right THEN turn_amount ELSE 0)]

TurnAmount(c, speed) ==
  IF c.is_reversing
    THEN -Mul(c.turn_speed, Min(TDiv(speed * Scale, c.max_speed), Scale))
    ELSE Mul(c.turn_speed, Min(TDiv(speed * Scale, c.max_speed), Scale))

Flagged_HalfThreshold(c, k, speed) ==
  IF speed > 50 THEN Turn(c, k, TurnAmount(c, speed)) ELSE c

Flagged(c, k, speed) ==
  IF speed > 100 THEN Turn(c, k, TurnAmount(c, speed)) ELSE c

\* Car.update, lines 177-201: speed, reversing flag and turning
Steer(c, k) ==
  Flagged([c EXCEPT !.is_reversing = IsReversing(c)], k,
          Hypot(c.velocity_x, c.velocity_y))

\* Car.update, lines 204-230: acceleration and braking / reverse;
\* speed is the speed computed at the start of the tick
Thrust_AlwaysReverse(c, k, speed) ==
  LET accelerated ==
        IF k.accelerate
          THEN [c EXCEPT
                  !.velocity_x = c.velocity_x + Mul(Cos(c.angle), c.acceleration),
                  !.velocity_y = c.velocity_y + Mul(Sin(c.angle), c.acceleration)]
          ELSE c
      reverse_accel == Mul(c.acceleration, REVERSE_SPEED_MULTIPLIER)
  IN  IF ~k.brake THEN accelerated
      ELSE [accelerated EXCEPT
              !.velocity_x = accelerated.velocity_x - Mul(Cos(c.angle), reverse_accel),
              !.velocity_y = accelerated.velocity_y - Mul(Sin(c.angle), reverse_accel)]

Thrust(c, k, speed) ==
  LET accelerated ==
        IF k.accelerate
          THEN [c EXCEPT
                  !.velocity_x = c.velocity_x + Mul(Cos(c.angle), c.acceleration),
                  !.velocity_y = c.velocity_y + Mul(Sin(c.angle), c.acceleration)]
          ELSE c
      reverse_accel == Mul(c.acceleration, REVERSE_SPEED_MULTIPLIER)
      brake_force == 300
  IN  IF ~k.brake THEN accelerated
      ELSE IF speed < 500
        THEN [accelerated EXCEPT
                !.velocity_x = accelerated.velocity_x - Mul(Cos(c.angle), reverse_accel),
                !.velocity_y = accelerated.velocity_y - Mul(Sin(c.angle), reverse_accel)]
        ELSE [accelerated EXCEPT
                !.velocity_x = accelerated.velocity_x
                               - TDiv(accelerated.velocity_x * brake_force, speed),
                !.velocity_y = accelerated.velocity_y
                               - TDiv(accelerated.velocity_y * brake_force, speed)]

\* Car.update, lines 232-234: friction
ApplyFriction(c) ==
  [c EXCEPT !.velocity_x = Mul(c.velocity_x, c.friction),
            !.velocity_y = Mul(c.velocity_y, c.friction)]

\* Car.update, lines 236-241: the speed limit of this tick
SpeedLimit(c) ==
  IF c.is_reversing THEN Mul(c.current_max_speed, REVERSE_SPEED_MULTIPLIER)
                    ELSE c.current_max_speed

\* Car.update, lines 244-246: component a of the velocity (a, b) times
\* scale = max_speed_to_use / current_speed.  The speed is taken of the
\* vector widened by k, so that rounding it down to a whole number changes
\* the result by less than a thousandth
Rescale(a, b, max_speed_to_use, k) ==
  TDiv(a * k * max_speed_to_use, Hypot(a * k, b * k))

\* Car.update, lines 243-246: the clamp
LimitSpeed_XOnly(c) ==
  LET current_speed == Hypot(c.velocity_x, c.velocity_y)
      max_speed_to_use == SpeedLimit(c)
      k == Max(1, 20000 \div Max(1, Max(Abs(c.velocity_x), Abs(c.velocity_y))))
  IN  IF current_speed > max_speed_to_use
        THEN [c EXCEPT
                !.velocity_x = Rescale(c.velocity_x, c.velocity_y, max_speed_to_use, k)]
        ELSE c

LimitSpeed(c) ==
  LET current_speed == Hypot(c.velocity_x, c.velocity_y)
      max_speed_to_use == SpeedLimit(c)
      k == Max(1, 20000 \div Max(1, Max(Abs(c.velocity_x), Abs(c.velocity_y))))
  IN  IF current_speed > max_speed_to_use
        THEN [c EXCEPT
                !.velocity_x = Rescale(c.velocity_x, c.velocity_y, max_speed_to_use, k),
                !.velocity_y = Rescale(c.velocity_y, c.velocity_x, max_speed_to_use, k)]
        ELSE c

\* Car.update, lines 259-270: accept the new position and read its surface
MoveClear(c, new_x, new_y, t) ==
  IF check_collision(t, Trunc(new_x), Trunc(new_y)) = TRACK_COLORS.SLOW_DOWN
    THEN [c EXCEPT !.x = new_x, !.y = new_y,
                   !.current_max_speed = Mul(c.max_speed, SLOW_DOWN_MULTIPLIER),
                   !.on_slow_surface = TRUE]
    ELSE [c EXCEPT !.x = new_x, !.y = new_y,
                   !.current_max_speed = c.max_speed,
                   !.on_slow_surface = FALSE]

\* Car.update, lines 272-274: keep the car within the screen
KeepOnScreen(c) ==
  [c EXCEPT
     !.x = Max((c.size[1] \div 2) * Scale,
               Min((SCREEN_WIDTH - c.size[1] \div 2) * Scale, c.x)),
     !.y = Max((c.size[2] \div 2) * Scale,
               Min((SCREEN_HEIGHT - c.size[2] \div 2) * Scale, c.y))]

\* Car.update, the tick left by an exception: the car as the failing line
\* found it
Failed(c, reached, reversing, limit) ==
  [car |-> reached, outcome |-> "Error",
   collision |-> FALSE, collision_count |-> 0,
   reversing |-> reversing,
   clamp_limit |-> limit, clamp_speed |-> 0, damped_speed |-> 0,
   limited |-> <<reached.velocity_x, reached.velocity_y>>,
   candidate |-> NoCandidate, search_from |-> reached,
   turned |-> reached.angle,
   normal |-> NoNormal, damped |-> <<reached.velocity_x, reached.velocity_y>>,
   tentative |-> <<c.x, c.y>>, accepted |-> <<c.x, c.y>>]

\* Car.update, the tick run to its end
Finished(rubbed, limited, new_x, new_y, collision_result, resolved) ==
  [car |-> KeepOnScreen(resolved.car), outcome |-> resolved.outcome,
   collision |-> collision_result.collision,
   collision_count |-> collision_result.collision_count,
   reversing |-> rubbed.is_reversing,
   clamp_limit |-> SpeedLimit(rubbed),
   clamp_speed |-> Hypot(limited.velocity_x, limited.velocity_y),
   limited |-> <<limited.velocity_x, limited.velocity_y>>,
   candidate |-> resolved.candidate, search_from |-> resolved.search_from,
   turned |-> rubbed.angle,
   normal |-> resolved.normal, damped |-> resolved.damped,
   damped_speed |-> resolved.damped_speed,
   tentative |-> <<new_x, new_y>>,
   accepted |-> <<resolved.car.x, resolved.car.y>>]

\* Car.update, lines 255-270: collision response, or the move
Resolve(rubbed, limited, new_x, new_y, collision_result, t, g) ==
  Finished(rubbed, limited, new_x, new_y, collision_result,
           IF collision_result.collision
             THEN handle_collision(limited, collision_result, t, g)
             ELSE [car |-> MoveClear(limited, new_x, new_y, t),
                   outcome |-> "Clear", damped_speed |-> 0,
                   candidate |-> NoCandidate, search_from |-> limited,
                   normal |-> NoNormal,
                   damped |-> <<limited.velocity_x, limited.velocity_y>>])

\* Car.update, lines 248-253: the tentative position and its probe
Probe(rubbed, limited, new_x, new_y, t, g) ==
  Resolve(rubbed, limited, new_x, new_y,
          CheckCollision(limited, new_x, new_y, t), t, g)

Move(rubbed, limited, t, g) ==
  Probe(rubbed, limited, limited.x + limited.velocity_x,
        limited.y + limited.velocity_y, t, g)

\* Car.update from line 236 on.  The clamp divides by the current speed
\* (line 244): with a negative limit at speed 0 it raises.
ClampAndMove_Unguarded(c, rubbed, t, g) ==
  IF Hypot(rubbed.velocity_x, rubbed.velocity_y) = 0
    THEN Failed(c, rubbed, rubbed.is_reversing, SpeedLimit(rubbed))
    ELSE Move(rubbed, LimitSpeed(rubbed), t, g)

ClampAndMove(c, rubbed, t, g) ==
  IF Hypot(rubbed.velocity_x, rubbed.velocity_y) = 0 /\ SpeedLimit(rubbed) < 0
    THEN Failed(c, rubbed, rubbed.is_reversing, SpeedLimit(rubbed))
    ELSE Move(rubbed, LimitSpeed(rubbed), t, g)

\* Car.update.  The result carries the new car, the way the tick ended and
\* the values the tick computed on the way.  Line 191 divides by max_speed:
\* with max_speed = 0 at a speed above 0.1 the tick raises there.
update(c, k, t, g) ==
  IF Hypot(c.velocity_x, c.velocity_y) > 100 /\ c.max_speed = 0
    THEN Failed(c, [c EXCEPT !.is_reversing = IsReversing(c)], IsReversing(c), 0)
    ELSE ClampAndMove(c,
           ApplyFriction(Thrust(Steer(c, k), k, Hypot(c.velocity_x, c.velocity_y))),
           t, g)

\* Car.adjust_physics
adjust_physics_MaxForMin(c, parameter, increase) ==
  IF parameter \notin {"turn_speed", "acceleration"} THEN c
  ELSE LET increment == IF parameter = "turn_speed"
                          THEN PHYSICS_ADJUSTMENT.turn_speed_increment
                          ELSE PHYSICS_ADJUSTMENT.acceleration_increment
       IN  IF increase
             THEN [c EXCEPT ![parameter] =
                     Max(c[parameter] + increment,
                         Mul(c[parameter], PHYSICS_ADJUSTMENT.max_adjustment))]
             ELSE [c EXCEPT ![parameter] =
                     Max(c[parameter] - increment,
                         Mul(c[parameter], PHYSICS_ADJUSTMENT.min_adjustment))]

adjust_physics(c, parameter, increase) ==
  IF parameter = "turn_speed"
    THEN LET increment == PHYSICS_ADJUSTMENT.turn_speed_increment
         IN  IF increase
               THEN [c EXCEPT !.turn_speed =
                       Min(c.turn_speed + increment,
                           Mul(c.turn_speed, PHYSICS_ADJUSTMENT.max_adjustment))]
               ELSE [c EXCEPT !.turn_speed =
                       Max(c.turn_speed - increment,
                           Mul(c.turn_speed, PHYSICS_ADJUSTMENT.min_adjustment))]
  ELSE IF parameter = "acceleration"
    THEN LET increment == PHYSICS_ADJUSTMENT.acceleration_increment
         IN  IF increase
               THEN [c EXCEPT !.acceleration =
                       Min(c.acceleration + increment,
                           Mul(c.acceleration, PHYSICS_ADJUSTMENT.max_adjustment))]
               ELSE [c EXCEPT !.acceleration =
                       Max(c.acceleration - increment,
                           Mul(c.acceleration, PHYSICS_ADJUSTMENT.min_adjustment))]
  ELSE c

\* ------------------------------------------------------------------------
\* settings_interface.py.  Strings are sequences of characters.
\* ------------------------------------------------------------------------
\* str.lower() on the characters that occur in the setting names
LowerChar(ch) ==
  CASE ch = "A" -> "a" [] ch = "F" -> "f" [] ch = "M" -> "m" [] ch = "P" -> "p"
    [] ch = "S" -> "s" [] ch = "T" -> "t" [] ch = "W" -> "w" [] OTHER -> ch

Lower(str) == [i \in 1..Len(str) |-> LowerChar(str[i])]

\* needle in hay
Contains(hay, needle) ==
  \E i \in 1..(Len(hay) - Len(needle) + 1) :
     SubSeq(hay, i, i + Len(needle) - 1) = needle

\* str.startswith
StartsWith(str, prefix) ==
  Len(str) >= Len(prefix) /\ SubSeq(str, 1, Len(prefix)) = prefix

\* str.replace('_', ' ')
ReplaceUnderscore(str) == [i \in 1..Len(str) |-> IF str[i] = "_" THEN " " ELSE str[i]]

\* SettingsInterface.__init__: self.settings (entry i is row i - 1)
Settings ==
  <<
     [name |-> << "P", "1", " ", "A", "c", "c", "e", "l", "e", "r", "a", "t", "i", "o", "n" >>,
      min_value |-> 100, max_value |-> 1000, increment |-> 50],
     [name |-> << "P", "1", " ", "M", "a", "x", " ", "S", "p", "e", "e", "d" >>,
      min_value |-> 2000, max_value |-> 15000, increment |-> 500],
     [name |-> << "P", "1", " ", "T", "u", "r", "n", " ", "S", "p", "e", "e", "d" >>,
      min_value |-> 1000, max_value |-> 8000, increment |-> 200],
     [name |-> << "P", "1", " ", "F", "r", "i", "c", "t", "i", "o", "n" >>,
      min_value |-> 10, max_value |-> 200, increment |-> 10],
     [name |-> << "P", "2", " ", "A", "c", "c", "e", "l", "e", "r", "a", "t", "i", "o", "n" >>,
      min_value |-> 100, max_value |-> 1000, increment |-> 50],
     [name |-> << "P", "2", " ", "M", "a", "x", " ", "S", "p", "e", "e", "d" >>,
      min_value |-> 2000, max_value |-> 15000, increment |-> 500],
     [name |-> << "P", "2", " ", "T", "u", "r", "n", " ", "S", "p", "e", "e", "d" >>,
      min_value |-> 1000, max_value |-> 8000, increment |-> 200],
     [name |-> << "P", "2", " ", "F", "r", "i", "c", "t", "i", "o", "n" >>,
      min_value |-> 10, max_value |-> 200, increment |-> 10],
     [name |-> << "W", "a", "l", "l", " ", "S", "t", "i", "c", "k", "i", "n", "e", "s", "s" >>,
      min_value |-> 0, max_value |-> 1000, increment |-> 100]
  >>

SettingIds ==
  [acceleration |-> << "a", "c", "c", "e", "l", "e", "r", "a", "t", "i", "o", "n" >>,
   max_speed |-> << "m", "a", "x", "_", "s", "p", "e", "e", "d" >>,
   turn_speed |-> << "t", "u", "r", "n", "_", "s", "p", "e", "e", "d" >>]

\* the car attribute a menu row adjusts, "" for the rows that adjust none
RowAttribute(row) ==
  CASE row % 4 = 0 /\ row < 8 -> "acceleration"
    [] row % 4 = 1 /\ row < 8 -> "max_speed"
    [] row % 4 = 2 /\ row < 8 -> "turn_speed"
    [] OTHER -> ""

\* the car index a menu row adjusts
RowCar(row) == row \div 4

\* SettingsInterface._adjust_car_setting, lines 219-225: the rows the
\* configuration search accepts for this car and setting, first one wins
ConfigRows(car_index, setting) ==
  { i \in 1..Len(Settings) :
      /\ \/ car_index = 0 /\ StartsWith(Settings[i].name, << "P", "1" >>)
                          /\ Contains(Lower(Settings[i].name), SettingIds[setting])
         \/ car_index = 1 /\ StartsWith(Settings[i].name, << "P", "2" >>)
                          /\ Contains(Lower(Settings[i].name), SettingIds[setting])
      /\ Contains(Lower(Settings[i].name),
                  Lower(ReplaceUnderscore(SettingIds[setting]))) }

\* SettingsInterface._adjust_car_setting, lines 215-229: the value written
AdjustedValue(c, car_index, setting, delta) ==
  LET new_value == c[setting] + delta
      found == ConfigRows(car_index, setting)
      cfg == Settings[CHOOSE i \in found : \A j \in found : i <= j]
  IN  IF found # {} THEN Max(cfg.min_value, Min(cfg.max_value, new_value))
                    ELSE new_value

\* SettingsInterface._adjust_car_friction, lines 188-194: the display value
AdjustedFrictionDisplay(car_index, current_value, delta) ==
  LET friction_config == Settings[4 * car_index + 4]
  IN  Max(friction_config.min_value,
          Min(friction_config.max_value, current_value + delta))

\* SettingsInterface._adjust_global_setting
adjust_global_setting(g, delta) ==
  [g EXCEPT !.wall_stickiness = Max(0, Min(Scale, g.wall_stickiness + delta))]

\* ------------------------------------------------------------------------
\* Bounds of the exploration.  A run follows one scenario: which keys the
\* player may hold, which tuning surface is used (the keyboard handlers of
\* main.py, or the settings thread that main_desktop.py starts) and which
\* tuning keys are pressed.  A run is followed until its last tick.
\*   free         any keys held
\*   gas          accelerate held on every tick
\*   brake        brake held on every tick
\*   tune         keyboard adjustments (main.py), made before the car is driven
\*   tune_accel   the I / K keys only (acceleration), many presses
\*   tune_turn    the U / J keys only (turn speed), many presses
\*   tune_stick   the O / L keys only (wall stickiness), many presses
\*   desktop_dec  settings thread: the cursor is moved to a row, then the
\*                left arrow (decrease) is pressed on it
\*   desktop_inc  the same with the right arrow (increase)
\*   desktop_turn settings thread with the left arrow; accelerate is held on
\*                every tick, with or without turn-left
\*   desktop_frame  the frames of main_desktop.py, both cars' updates, with
\*                the settings thread (left arrow) running between them
\* ------------------------------------------------------------------------
MaxTicksFree == 2
MaxTicksGas == 26
MaxTicksBrake == 9
MaxTicksTune == 1
MaxTicksDesktop == 2
MaxTicksTurn == 3
MaxAdjustTune == 5
MaxAdjustAccel == 9
MaxAdjustTurn == 32
MaxAdjustStick == 8
MaxPress == 17
MaxNav == 1
MaxFrames == 1
MaxFramePress == 3

Scenarios == {"free", "gas", "brake", "tune", "tune_accel", "tune_turn",
              "tune_stick", "desktop_dec", "desktop_inc", "desktop_turn"}

Desktop == {"desktop_dec", "desktop_inc"}

\* the scenarios in which the settings thread runs; in desktop_frame it runs
\* between the two Car.update calls of a frame (left arrow)
SettingsThread == Desktop \cup {"desktop_turn", "desktop_frame"}

\* the scenarios with one tuning key pair pressed many times
Deep == {"tune_accel", "tune_turn", "tune_stick"}

TickLimit(s) ==
  CASE s = "free" -> MaxTicksFree
    [] s = "gas" -> MaxTicksGas
    [] s = "brake" -> MaxTicksBrake
    [] s = "tune" -> MaxTicksTune
    [] s \in Deep -> MaxTicksTune
    [] s \in Desktop -> MaxTicksDesktop
    [] s = "desktop_turn" -> MaxTicksTurn
    [] s = "desktop_frame" -> MaxFrames

AdjustLimit(s) ==
  CASE s = "tune" -> MaxAdjustTune
    [] s = "tune_accel" -> MaxAdjustAccel
    [] s = "tune_turn" -> MaxAdjustTurn
    [] s = "tune_stick" -> MaxAdjustStick
    [] s \in Desktop -> MaxPress
    [] s = "desktop_turn" -> MaxPress
    [] s = "desktop_frame" -> MaxFramePress
    [] OTHER -> 0

GasOnly == [NoKeys EXCEPT !.accelerate = TRUE]
BrakeOnly == [NoKeys EXCEPT !.brake = TRUE]

KeysOf(s) ==
  CASE s = "free" -> KeyStates
    [] s = "gas" -> {GasOnly}
    [] s = "brake" -> {BrakeOnly}
    [] s = "desktop_turn" -> {GasOnly, [GasOnly EXCEPT !.turn_left = TRUE]}
    [] OTHER -> {GasOnly, NoKeys}

\* the parameters the U/J and I/K keys adjust in a scenario
ParametersOf(s) ==
  CASE s = "tune" -> {"turn_speed", "acceleration"}
    [] s = "tune_accel" -> {"acceleration"}
    [] s = "tune_turn" -> {"turn_speed"}
    [] OTHER -> {}

\* the arrow keys pressed in a settings-thread scenario: -1 left, 1 right
ArrowsOf(s) == IF s = "desktop_inc" THEN {1} ELSE {-1}

\* the runs explored: <<scenario, mask, player>>
Runs ==
  { r \in Scenarios \X ((1..6) \cup {9, 10, 11}) \X {1, 2} :
      /\ r[1] = "free" => r[2] \in {1, 2, 3, 6, 9}
      /\ r[2] = 9 => r[1] = "free"
      /\ r[2] \in {10, 11} => r[1] = "gas" /\ r[3] = 1
      /\ r[1] = "desktop_turn" => r[2] = 6 /\ r[3] = 1
      /\ r[1] = "tune" => r[2] \in {1, 6}
      /\ r[1] \in Deep => r[2] = 6 /\ r[3] = 1
      /\ r[1] \in Desktop => r[2] \in {1, 6} /\ (r[3] = 2 => r[2] = 6) }

\* ------------------------------------------------------------------------
\* State
\* ------------------------------------------------------------------------
VARIABLES
  scenario,       \* the scenario of this run
  trk,            \* Track.mask_surface: a mask image (index into Masks),
                  \* NoMask or FallbackMask
  track,          \* the rest of the Track object and the image files it
                  \* loads from
  probe,          \* the last Track.check_collision or Car._check_collision
                  \* call made on its own, with its result
  player,         \* the car that is followed: 1 (sports car) or 2 (truck)
  car,            \* the Car object
  game_settings,  \* the global GameSettings instance
  si,             \* the SettingsInterface: menu cursor, friction display,
                  \* and the position of its thread inside an adjustment
  last,           \* what the last tick of the car read, computed and decided
  ticks,          \* number of ticks so far
  presses,        \* number of tuning key presses so far
  navs,           \* number of menu cursor moves so far
  err,            \* an exception has left Car.update
  tuned,          \* the last two Car.adjust_physics calls, oldest first
  other,          \* the Car object of the other player
  frame           \* the game loop inside _handle_events: pc 0 before
                  \* cars[0].update, 1 between the two updates; read is the
                  \* wall_stickiness the collision handling of cars[0] and of
                  \* cars[1] read in the frame (-1: it did not run)

vars == <<scenario, trk, player, car, game_settings, si, last, ticks,
          presses, navs, err, tuned, other, frame, track, probe>>

\* RacingGame._initialize_game: cars[0] is the sports car, cars[1] the truck
InitialCar(t, p) ==
  NewCar(StartPositionOf(t, p), IF p = 1 THEN SPORTS_CAR ELSE TRUCK)

NoTick(c) ==
  [keys |-> NoKeys, before |-> c, after |-> c, outcome |-> "None",
   collision |-> FALSE, collision_count |-> 0, reversing |-> FALSE,
   clamp_limit |-> 0, clamp_speed |-> 0, damped_speed |-> 0,
   limited |-> <<c.velocity_x, c.velocity_y>>,
   candidate |-> NoCandidate, search_from |-> c,
   turned |-> c.angle,
   normal |-> NoNormal, damped |-> <<c.velocity_x, c.velocity_y>>,
   tentative |-> <<c.x, c.y>>, accepted |-> <<c.x, c.y>>]

\* no call has been made
NoProbe == [kind |-> "none", x |-> 0, y |-> 0, color |-> "",
            points |-> << >>, wall_points |-> << >>]

\* the Track object after load_track has loaded both images
LoadedTrack(image) ==
  [visual |-> "ok", mask |-> "ok", image |-> image, load |-> "loaded",
   visual_surface |-> TRUE, start_positions |-> find_start_positions(image),
   track_loaded |-> TRUE, returned |-> "True"]

InitWith(runs) ==
  /\ \E r \in runs : scenario = r[1] /\ trk = r[2] /\ player = r[3]
  /\ track = LoadedTrack(trk)
  /\ probe = NoProbe
  /\ car = InitialCar(trk, player)
  /\ other = InitialCar(trk, 3 - player)
  /\ frame = [pc |-> 0, read |-> <<-1, -1>>]
  /\ game_settings = NewGameSettings
  /\ si = [current_selection |-> 0, friction_display |-> <<50, 70>>,
           pc |-> "idle", new_value |-> 0, car_index |-> 0]
  /\ last = NoTick(car)
  /\ ticks = 0
  /\ presses = 0
  /\ navs = 0
  /\ err = FALSE
  /\ tuned = << >>

Init == InitWith(Runs)

\* ------------------------------------------------------------------------
\* Actions
\* ------------------------------------------------------------------------
\* one frame's Car.update of the followed car (RacingGame._handle_events)
TickRecord(k, c, r) ==
  [keys |-> k, before |-> c, after |-> r.car,
   outcome |-> r.outcome,
   collision |-> r.collision,
   collision_count |-> r.collision_count,
   reversing |-> r.reversing,
   clamp_limit |-> r.clamp_limit,
   clamp_speed |-> r.clamp_speed,
   limited |-> r.limited,
   candidate |-> r.candidate, search_from |-> r.search_from,
   turned |-> r.turned,
   normal |-> r.normal, damped |-> r.damped,
   damped_speed |-> r.damped_speed,
   tentative |-> r.tentative, accepted |-> r.accepted]

Tick ==
  /\ ~err
  /\ ticks < TickLimit(scenario)
  /\ \E k \in KeysOf(scenario) :
       \E r \in {update(car, k, trk, game_settings)} :
           /\ car' = r.car
           /\ last' = TickRecord(k, car, r)
           /\ err' = (r.outcome = "Error")
  /\ ticks' = ticks + 1
  /\ UNCHANGED <<scenario, trk, player, game_settings, si, presses, navs, tuned,
                 other, frame>>
  /\ UNCHANGED <<track, probe>>

\* the wall_stickiness an update read: Car._handle_collision reads it
\* (line 326) when the probe reported a collision
ReadBy(r, g) == IF r.collision THEN g.wall_stickiness ELSE -1

\* main_desktop.py, RacingGame._handle_events, line 93: cars[0].update.
\* The settings thread runs between this call and the next one.
UpdateFirst ==
  /\ ~err
  /\ frame.pc = 0
  /\ ticks < TickLimit(scenario)
  /\ \E k \in KeysOf(scenario) :
       \E r \in {update(car, k, trk, game_settings)} :
           /\ car' = r.car
           /\ last' = TickRecord(k, car, r)
           /\ err' = (r.outcome = "Error")
           /\ frame' = [pc |-> 1, read |-> <<ReadBy(r, game_settings), -1>>]
  /\ UNCHANGED <<scenario, trk, player, game_settings, si, ticks, presses, navs,
                 tuned, other>>
  /\ UNCHANGED <<track, probe>>

\* main_desktop.py, RacingGame._handle_events, line 95: cars[1].update
UpdateSecond ==
  /\ ~err
  /\ frame.pc = 1
  /\ \E k \in KeysOf(scenario) :
       \E r \in {update(other, k, trk, game_settings)} :
           /\ other' = r.car
           /\ err' = (r.outcome = "Error")
           /\ frame' = [pc |-> 0,
                        read |-> <<frame.read[1], ReadBy(r, game_settings)>>]
  /\ ticks' = ticks + 1
  /\ UNCHANGED <<scenario, trk, player, car, game_settings, si, last, presses,
                 navs, tuned>>
  /\ UNCHANGED <<track, probe>>

\* the record of the last two calls after one more call
LastTwo(calls, call) ==
  IF Len(calls) < 2 THEN Append(calls, call) ELSE <<calls[2], call>>

\* main.py, RacingGame._handle_events: U/J/I/K adjust the Player 1 car (in
\* a run the tuning keys are pressed before the first tick)
KeyAdjustPhysics ==
  /\ ~err
  /\ ticks = 0
  /\ presses < AdjustLimit(scenario)
  /\ player = 1
  /\ \E parameter \in ParametersOf(scenario), increase \in BOOLEAN :
       /\ car' = adjust_physics(car, parameter, increase)
       /\ tuned' = LastTwo(tuned, [parameter |-> parameter, increase |-> increase,
                                   before |-> car[parameter],
                                   after |-> car'[parameter]])
  /\ presses' = presses + 1
  /\ UNCHANGED <<scenario, trk, player, game_settings, si, last, ticks, navs, err,
                 other, frame>>
  /\ UNCHANGED <<track, probe>>

\* main.py, RacingGame._handle_events: O/L adjust the wall stickiness
KeyAdjustStickiness ==
  /\ ~err
  /\ scenario \in {"tune", "tune_stick"}
  /\ ticks = 0
  /\ presses < AdjustLimit(scenario)
  /\ \E increase \in BOOLEAN :
       game_settings' = adjust_stickiness(game_settings, increase)
  /\ presses' = presses + 1
  /\ UNCHANGED <<scenario, trk, player, car, si, last, ticks, navs, err, tuned,
                 other, frame>>
  /\ UNCHANGED <<track, probe>>

\* SettingsInterface._run_interface: up / down arrow (in a run the cursor
\* is moved before the first adjustment)
SINavigate ==
  /\ scenario \in SettingsThread
  /\ ticks < TickLimit(scenario)
  /\ si.pc = "idle"
  /\ presses = 0
  /\ navs < MaxNav
  /\ \E step \in {-1, 1} :
       si' = [si EXCEPT !.current_selection =
                (si.current_selection + step) % Len(Settings)]
  /\ navs' = navs + 1
  /\ UNCHANGED <<scenario, trk, player, car, game_settings, last, ticks, presses,
                 err, tuned, other, frame>>
  /\ UNCHANGED <<track, probe>>

\* SettingsInterface._run_interface: left / right arrow on the selected row.
\* A max_speed adjustment writes car.max_speed here (line 231) and
\* car.current_max_speed in a second step of the thread (line 235).
SIAdjust ==
  /\ scenario \in SettingsThread
  /\ ticks < TickLimit(scenario)
  /\ si.pc = "idle"
  /\ presses < AdjustLimit(scenario)
  /\ \E sign \in ArrowsOf(scenario) :
       LET row == si.current_selection
           delta == sign * Settings[row + 1].increment
           attr == RowAttribute(row)
           mine == RowCar(row) = player - 1
           shown == AdjustedFrictionDisplay(RowCar(row),
                       si.friction_display[RowCar(row) + 1], delta)
           target == IF mine THEN car ELSE other
       IN  IF row = 8
             THEN /\ game_settings' = adjust_global_setting(game_settings, delta)
                  /\ UNCHANGED <<car, other, si>>
           ELSE IF attr = ""
             THEN /\ si' = [si EXCEPT !.friction_display[RowCar(row) + 1] = shown]
                  /\ car' = IF mine THEN [car EXCEPT !.friction = Scale - shown]
                                    ELSE car
                  /\ other' = IF mine THEN other
                                      ELSE [other EXCEPT !.friction = Scale - shown]
                  /\ UNCHANGED game_settings
           ELSE \E adjusted \in {[target EXCEPT
                    ![attr] = AdjustedValue(target, RowCar(row), attr, delta)]} :
                /\ car' = IF mine THEN adjusted ELSE car
                /\ other' = IF mine THEN other ELSE adjusted
                /\ si' = IF attr = "max_speed"
                           THEN [si EXCEPT !.pc = "write_current_max_speed",
                                           !.new_value = adjusted.max_speed,
                                           !.car_index = RowCar(row)]
                           ELSE si
                /\ UNCHANGED game_settings
  /\ presses' = presses + 1
  /\ UNCHANGED <<scenario, trk, player, last, ticks, navs, err, tuned, frame>>
  /\ UNCHANGED <<track, probe>>

\* SettingsInterface._adjust_car_setting, line 235
SIWriteCurrentMaxSpeed ==
  /\ si.pc = "write_current_max_speed"
  /\ car' = IF si.car_index = player - 1
              THEN [car EXCEPT !.current_max_speed = si.new_value] ELSE car
  /\ other' = IF si.car_index = player - 1
                THEN other ELSE [other EXCEPT !.current_max_speed = si.new_value]
  /\ si' = [si EXCEPT !.pc = "idle", !.new_value = 0, !.car_index = 0]
  /\ UNCHANGED <<scenario, trk, player, game_settings, last, ticks, presses, navs,
                 err, tuned, frame>>
  /\ UNCHANGED <<track, probe>>

Next ==
  \/ Tick
  \/ KeyAdjustPhysics
  \/ KeyAdjustStickiness
  \/ SINavigate
  \/ SIAdjust
  \/ SIWriteCurrentMaxSpeed

Spec == Init /\ [][Next]_vars

\* ------------------------------------------------------------------------
\* The desktop game followed call by call: the two Car.update calls of a
\* frame are separate steps, and the settings thread runs between them.
\* cars[0] is the followed car.
\* ------------------------------------------------------------------------
FrameRuns == {"desktop_frame"} \X {1, 5} \X {1}

InitFrame == InitWith(FrameRuns)

NextFrame ==
  \/ UpdateFirst
  \/ UpdateSecond
  \/ SINavigate
  \/ SIAdjust
  \/ SIWriteCurrentMaxSpeed

SpecFrame == InitFrame /\ [][NextFrame]_vars

\* ------------------------------------------------------------------------
\* The track on its own: a Track object is constructed, load_track is
\* called on image files that load or fail to load, the cars are created
\* at its start positions, and check_collision and the hull probe are
\* called on coordinates and poses drawn from the sets below.
\* ------------------------------------------------------------------------
\* how an image file behaves in pygame.image.load: it loads, it raises
\* pygame.error (not an image), or it raises FileNotFoundError (no such
\* file; pygame 2, which dev.py line 53 requires)
FileStates == {"ok", "unreadable", "missing"}

\* the image files of a run: with both readable, any of the masks
Assets ==
  { a \in [visual : FileStates, mask : FileStates, image : 1..NumMasks] :
      (a.visual # "ok" \/ a.mask # "ok") => a.image = 1 }

QueryX == {-1, 0, 150, 640, SCREEN_WIDTH - 1, SCREEN_WIDTH}
QueryY == {-1, 0, 318, 340, SCREEN_HEIGHT - 1, SCREEN_HEIGHT}

\* positions and headings (degrees) the hull probe is called with
PoseX == {12, 640, SCREEN_WIDTH - 12}
PoseY == {7, 340}
PoseAngles == {0, 90, 180, 270}

\* no Car object exists yet: a placeholder of the same shape, without a hull
NoCar == [NewCar(<<0, 0>>, SPORTS_CAR) EXCEPT !.size = <<0, 0>>]

\* Track.__init__
InitTrack ==
  /\ scenario = "track"
  /\ trk = NoMask
  /\ \E a \in Assets :
       track = [visual |-> a.visual, mask |-> a.mask, image |-> a.image,
                load |-> "new", visual_surface |-> FALSE,
                start_positions |-> << >>,
                track_loaded |-> FALSE, returned |-> "none"]
  /\ probe = NoProbe
  /\ player = 1
  /\ car = NoCar
  /\ other = NoCar
  /\ frame = [pc |-> 0, read |-> <<-1, -1>>]
  /\ game_settings = NewGameSettings
  /\ si = [current_selection |-> 0, friction_display |-> <<50, 70>>,
           pc |-> "idle", new_value |-> 0, car_index |-> 0]
  /\ last = NoTick(NoCar)
  /\ ticks = 0
  /\ presses = 0
  /\ navs = 0
  /\ err = FALSE
  /\ tuned = << >>

\* Track.load_track.  The except clause (line 54) catches pygame.error
\* only: a FileNotFoundError leaves load_track, with what was assigned
\* before the failing line.
LoadTrack ==
  /\ track.load = "new"
  /\ IF track.visual = "missing"
       THEN /\ track' = [track EXCEPT !.load = "raised"]
            /\ trk' = trk
     ELSE IF track.visual = "ok" /\ track.mask = "missing"
       THEN /\ track' = [track EXCEPT !.load = "raised", !.visual_surface = TRUE]
            /\ trk' = trk
     ELSE IF track.visual = "unreadable" \/ track.mask = "unreadable"
       THEN /\ track' = [track EXCEPT !.load = "fallback",
                                      !.visual_surface = TRUE,
                                      !.start_positions = FallbackStarts,
                                      !.track_loaded = TRUE,
                                      !.returned = "False"]
            /\ trk' = FallbackMask
     ELSE /\ track' = [track EXCEPT !.load = "loaded",
                                    !.visual_surface = TRUE,
                                    !.start_positions =
                                       find_start_positions(track.image),
                                    !.track_loaded = TRUE,
                                    !.returned = "True"]
          /\ trk' = track.image
  /\ UNCHANGED <<scenario, player, car, game_settings, si, last, ticks, presses,
                 navs, err, tuned, other, frame, probe>>

\* RacingGame._initialize_game, lines 55-76, after load_track has returned
CreateCars ==
  /\ track.load \in {"loaded", "fallback"}
  /\ car = NoCar
  /\ car' = InitialCar(trk, 1)
  /\ other' = InitialCar(trk, 2)
  /\ UNCHANGED <<scenario, trk, player, game_settings, si, last, ticks, presses,
                 navs, err, tuned, frame, track, probe>>

\* Track.check_collision(x, y)
CheckPixel ==
  /\ \E px \in QueryX, py \in QueryY :
       probe' = [kind |-> "pixel", x |-> px, y |-> py,
                 color |-> check_collision(trk, px, py),
                 points |-> << >>, wall_points |-> << >>]
  /\ UNCHANGED <<scenario, trk, player, car, game_settings, si, last, ticks,
                 presses, navs, err, tuned, other, frame, track>>

\* Car._check_collision(new_x, new_y, track) of cars[0] at some heading
CheckHull ==
  /\ car # NoCar
  /\ \E px \in PoseX, py \in PoseY, a \in PoseAngles :
       \E c \in {[car EXCEPT !.angle = a * Scale]} :
          probe' = [kind |-> "hull", x |-> px, y |-> py, color |-> "",
                    points |-> collision_points_world(c, px * Scale, py * Scale),
                    wall_points |->
                      CheckCollision(c, px * Scale, py * Scale, trk).wall_points]
  /\ UNCHANGED <<scenario, trk, player, car, game_settings, si, last, ticks,
                 presses, navs, err, tuned, other, frame, track>>

NextTrack ==
  \/ LoadTrack
  \/ CreateCars
  \/ CheckPixel
  \/ CheckHull

SpecTrack == InitTrack /\ [][NextTrack]_vars

\* ------------------------------------------------------------------------
\* Observations on the last tick
\* ------------------------------------------------------------------------
\* |velocity|, as computed at car.py line 243
Speed(c) == Hypot(c.velocity_x, c.velocity_y)

\* the terrain class at the car's own position, read as car.py line 260 reads it
ColorAt(c) == check_collision(trk, Trunc(c.x), Trunc(c.y))

\* the number of hull probe points of the car's pose that are on a wall
WallProbes(c) == CheckCollision(c, c.x, c.y, trk).collision_count

\* the same count for the pose the resolver accepted, before lines 272-274
AcceptedWallProbes ==
  CheckCollision(last.after, last.accepted[1], last.accepted[2], trk).collision_count

\* a tick has run to its end (Car.update returned)
Ticked == last.outcome \notin {"None", "Error"}

\* Scenario A: the car was at rest, only accelerate was held, and a probe
\* point of the tentative pose was on a wall
ScenarioA ==
  /\ Ticked
  /\ last.keys = GasOnly
  /\ last.before.velocity_x = 0 /\ last.before.velocity_y = 0
  /\ last.collision

\* ------------------------------------------------------------------------
\* Properties
\* ------------------------------------------------------------------------

\* C1: whenever a tick ends by accepting a position through Clear, Sliding
\* or Repositioned, the terrain class of the car's own position (x, y) at
\* the end of that tick is not Wall.
C1_AcceptedPositionNotWall ==
  last.outcome \in {"Clear", "Sliding", "Repositioned"}
    => ColorAt(last.after) # TRACK_COLORS.WALL

C3_ResetEndsAtSpawn ==
  last.outcome = "Reset"
    => /\ last.after.x = last.after.start_x
       /\ last.after.y = last.after.start_y
       /\ last.after.angle = last.after.start_angle
       /\ last.after.velocity_x = 0 /\ last.after.velocity_y = 0
       /\ ~last.after.is_reversing

C5_SpawnIsClear ==
  last.outcome = "Reset"
    => /\ WallProbes(last.after) = 0
       /\ ColorAt(last.after) # TRACK_COLORS.WALL

\* C6: on every tick, right after the clamp step, |velocity| is at most
\* current_max_speed, and at most current_max_speed times
\* REVERSE_SPEED_MULTIPLIER when is_reversing is set on that tick.
C6_ClampedToCurrentMaxSpeed ==
  Ticked
    => /\ last.clamp_speed <= last.before.current_max_speed
       /\ last.reversing
            => last.clamp_speed
                 <= Mul(last.before.current_max_speed, REVERSE_SPEED_MULTIPLIER)

\* C7 (as stated): in the state after every tick, |velocity| is at most the
\* current_max_speed that the tick left in the car.
C7_SpeedWithinCurrentMaxSpeed ==
  Ticked => Speed(last.after) <= last.after.current_max_speed

\* C7 (amended): in the state after every tick, |velocity| is at most the
\* magnitude of the limit that the tick's clamp step used: the
\* current_max_speed the tick read, times REVERSE_SPEED_MULTIPLIER when
\* reversing (within one thousandth, the rounding of the two components the
\* clamp scales).
C7_SpeedWithinClampLimit ==
  Ticked => Speed(last.after) <= Abs(last.clamp_limit) + 1

\* a tick moved the car onto a slow surface at more than the halved limit
C7_Witness ==
  /\ Ticked
  /\ last.outcome = "Clear"
  /\ last.after.on_slow_surface
  /\ Speed(last.after) > last.after.current_max_speed

\* C8: at the end of every tick a car whose position is on a SlowDown pixel
\* has on_slow_surface true and current_max_speed = max_speed * 0.5, and on
\* the tick that takes it off the SlowDown patch, by any outcome, it has
\* on_slow_surface false and current_max_speed = max_speed.
C8_SlowSurfaceFollowsPosition ==
  Ticked
    => /\ ColorAt(last.after) = TRACK_COLORS.SLOW_DOWN
            => /\ last.after.on_slow_surface
               /\ last.after.current_max_speed
                    = Mul(last.after.max_speed, SLOW_DOWN_MULTIPLIER)
       /\ (/\ ColorAt(last.before) = TRACK_COLORS.SLOW_DOWN
           /\ ColorAt(last.after) # TRACK_COLORS.SLOW_DOWN)
            => /\ ~last.after.on_slow_surface
               /\ last.after.current_max_speed = last.after.max_speed

\* C9: under any interleaving of ticks with the settings thread, the
\* current_max_speed a tick reads equals max_speed or max_speed times
\* SLOW_DOWN_MULTIPLIER.
C9_TickReadsConsistentLimit ==
  Ticked
    => last.before.current_max_speed
         \in {last.before.max_speed,
              Mul(last.before.max_speed, SLOW_DOWN_MULTIPLIER)}

\* C10: after any sequence of adjust_physics calls, turn_speed and
\* acceleration stay within [0.2 * b, 2 * b], b being the value the car was
\* created with.
C10_AdjustWithinBaselineRange ==
  scenario = "tune"
    => LET b == InitialCar(trk, player)
       IN  /\ car.acceleration >= Mul(b.acceleration, PHYSICS_ADJUSTMENT.min_adjustment)
           /\ car.acceleration <= Mul(b.acceleration, PHYSICS_ADJUSTMENT.max_adjustment)
           /\ car.turn_speed >= Mul(b.turn_speed, PHYSICS_ADJUSTMENT.min_adjustment)
           /\ car.turn_speed <= Mul(b.turn_speed, PHYSICS_ADJUSTMENT.max_adjustment)

\* the increment adjust_physics uses for a parameter (car.py lines 469, 483)
IncrementOf(parameter) ==
  IF parameter = "turn_speed" THEN PHYSICS_ADJUSTMENT.turn_speed_increment
                              ELSE PHYSICS_ADJUSTMENT.acceleration_increment

\* the last two adjust_physics calls were an increase followed by a decrease
\* of the same parameter
UpThenDown ==
  /\ Len(tuned) = 2
  /\ tuned[1].parameter = tuned[2].parameter
  /\ tuned[1].increase /\ ~tuned[2].increase

\* C11: for acceleration (and turn_speed) at any reachable value v, an
\* increase followed by a decrease leaves a value within one increment
\* (0.05, resp. 0.2) of v.
C11_UpThenDownWithinIncrement ==
  UpThenDown
    => Abs(tuned[2].after - tuned[1].before) <= IncrementOf(tuned[2].parameter)

\* an increase followed by a decrease that did not return to the value it
\* started from: the increase was cut by its clamp
C11_Witness ==
  /\ UpThenDown
  /\ tuned[1].after < tuned[1].before + IncrementOf(tuned[1].parameter)
  /\ tuned[2].after # tuned[1].before

\* C12: after any sequence of stickiness adjustments (adjust_stickiness up
\* or down, the settings interface's wall_stickiness adjustment with any
\* delta) wall_stickiness is within [0, 1], and wall_bounce_factor is within
\* [0, 1] in every reachable state.
C12_TuningStoreWithinUnitRange ==
  /\ game_settings.wall_stickiness \in 0..Scale
  /\ game_settings.wall_bounce_factor \in 0..Scale
  /\ \A delta \in {-2 * Scale, -1, 1, 2 * Scale} :
       adjust_global_setting(game_settings, delta).wall_stickiness \in 0..Scale

\* more increases than fit between the initial stickiness and 1 were made
C12_Witness ==
  /\ game_settings.wall_stickiness = Scale
  /\ WALL_STICKINESS + presses * PHYSICS_ADJUSTMENT.stickiness_increment > Scale

\* C13: within one frame the collision handling of both vehicles reads the
\* same wall_stickiness, also when the settings interface writes from its
\* own thread while the game loop is updating the cars.
C13_FrameReadsOneStickiness ==
  (frame.pc = 0 /\ frame.read[1] # -1 /\ frame.read[2] # -1)
    => frame.read[1] = frame.read[2]

\* ------------------------------------------------------------------------
\* Properties of the track
\* ------------------------------------------------------------------------
\* pixel p is met before pixel q in a scan row by row (ascending y, and
\* ascending x within a row), resp. column by column
BeforeByRow(p, q) == p[2] < q[2] \/ (p[2] = q[2] /\ p[1] < q[1])
BeforeByColumn(p, q) == p[1] < q[1] \/ (p[1] = q[1] /\ p[2] < q[2])

\* the start positions are exactly the blue pixels of the mask, each once
StartsAreBluePixels ==
  /\ { track.start_positions[i] : i \in 1..Len(track.start_positions) }
       = BluePixels(trk)
  /\ Len(track.start_positions) = Cardinality(BluePixels(trk))

\* Scenario C: markers only at (150,340) and (150,380)
ScenarioC ==
  BluePixels(trk) = { <<150, 340>>, <<150, 380>> }
    => track.start_positions = << <<150, 340>>, <<150, 380>> >>

\* C14 (as stated): after a successful load the start positions are exactly
\* the blue pixels of the mask, each once, in row-major scan order
\* (ascending y, and ascending x within a row); for markers only at
\* (150,340) and (150,380) they are [(150,340), (150,380)].
C14_StartPositionsRowMajor ==
  track.load = "loaded"
    => /\ StartsAreBluePixels
       /\ \A i, j \in 1..Len(track.start_positions) :
            i < j => BeforeByRow(track.start_positions[i], track.start_positions[j])
       /\ ScenarioC

\* C14 (amended): the same, in column-major scan order (ascending x, and
\* ascending y within a column).
C14_StartPositionsColumnMajor ==
  track.load = "loaded"
    => /\ StartsAreBluePixels
       /\ \A i, j \in 1..Len(track.start_positions) :
            i < j => BeforeByColumn(track.start_positions[i],
                                    track.start_positions[j])
       /\ ScenarioC

\* a mask was loaded on which the two scan orders differ
C14_Witness ==
  /\ track.load = "loaded"
  /\ \E p, q \in BluePixels(trk) : BeforeByColumn(p, q) /\ BeforeByRow(q, p)

\* the terrain class r pixels from the centre of the screen at a heading
RayClass(angle, r) ==
  check_collision(trk, SCREEN_WIDTH \div 2 + Trunc(r * Cos(angle * Scale)),
                       SCREEN_HEIGHT \div 2 + Trunc(r * Sin(angle * Scale)))

\* from the centre of the screen outward at a heading: Wall, then a stretch
\* that is not Wall, then Wall to the edge of the raster and beyond
RingAlong(angle) ==
  /\ RayClass(angle, 0) = TRACK_COLORS.WALL
  /\ RayClass(angle, SCREEN_WIDTH) = TRACK_COLORS.WALL
  /\ Cardinality({ r \in 0..(SCREEN_WIDTH - 1) :
                     (RayClass(angle, r) = TRACK_COLORS.WALL)
                       # (RayClass(angle, r + 1) = TRACK_COLORS.WALL) }) = 2
  /\ \E r \in 0..SCREEN_WIDTH : RayClass(angle, r) = TRACK_COLORS.TRACK_SURFACE

\* C15: the fallback track built on load failure has a closed ring of
\* Drivable pixels bounded on the outside and on the inside by Wall, at
\* least one SlowDown pixel, and exactly two start positions, (150, 340)
\* and (150, 380), both on non-Wall terrain.
C15_FallbackTrackShape ==
  track.load = "fallback"
    => /\ \A a \in 0..23 : RingAlong(15 * a)
       /\ track.start_positions = << <<150, 340>>, <<150, 380>> >>
       /\ \A i \in 1..Len(track.start_positions) :
            check_collision(trk, track.start_positions[i][1],
                            track.start_positions[i][2]) # TRACK_COLORS.WALL
       /\ \E px \in 0..(SCREEN_WIDTH - 1), py \in 0..(SCREEN_HEIGHT - 1) :
            check_collision(trk, px, py) = TRACK_COLORS.SLOW_DOWN

\* C16: whenever loading the visual image or the mask image fails,
\* load_track does not raise: it returns False, builds the fallback track
\* and leaves the track usable (mask present, track_loaded true, two start
\* positions).
C16_LoadFailureNeverSurfaces ==
  (track.load # "new" /\ (track.visual # "ok" \/ track.mask # "ok"))
    => /\ track.load = "fallback"
       /\ track.returned = "False"
       /\ trk = FallbackMask
       /\ track.track_loaded
       /\ Len(track.start_positions) = 2

\* the coordinate is not a pixel of the raster
OutsideRaster(px, py) ==
  px < 0 \/ py < 0 \/ px >= SCREEN_WIDTH \/ py >= SCREEN_HEIGHT

\* C17: check_collision returns Wall for every coordinate with x < 0,
\* y < 0, x >= mask width or y >= mask height, and for every coordinate
\* when no mask is loaded; a hull probe point outside the raster counts as
\* an offending point.
C17_OutOfBoundsIsWall ==
  /\ (probe.kind = "pixel" /\ (OutsideRaster(probe.x, probe.y) \/ trk = NoMask))
       => probe.color = TRACK_COLORS.WALL
  /\ probe.kind = "hull"
       => \A i \in 1..Len(probe.points) :
            OutsideRaster(probe.points[i][1], probe.points[i][2])
              => \E j \in 1..Len(probe.wall_points) :
                   probe.wall_points[j] = probe.points[i]

\* a hull probe on a loaded mask with a point outside the raster and a
\* point inside it that is not an offending point
C17_Witness ==
  /\ probe.kind = "hull"
  /\ trk \in 1..NumMasks
  /\ \E i \in 1..Len(probe.points) :
       OutsideRaster(probe.points[i][1], probe.points[i][2])
  /\ \E i \in 1..Len(probe.points) :
       /\ ~OutsideRaster(probe.points[i][1], probe.points[i][2])
       /\ \A j \in 1..Len(probe.wall_points) : probe.wall_points[j] # probe.points[i]

\* C18: classify maps every coordinate of every mask to exactly one of the
\* four terrain classes (Drivable, Wall, StartMarker, SlowDown); no result
\* outside these four classes is produced.
C18_ClassifyFourClasses ==
  probe.kind = "pixel"
    => probe.color \in { TRACK_COLORS.TRACK_SURFACE, TRACK_COLORS.WALL,
                         TRACK_COLORS.START_POSITION, TRACK_COLORS.SLOW_DOWN }

\* the key states k with both turn keys released
WithoutTurn(k) == [k EXCEPT !.turn_left = FALSE, !.turn_right = FALSE]

\* C19: on a tick that starts with speed <= 0.1 turning is not applied: the
\* heading after the tick is the same whichever of turn-left and turn-right
\* are held, namely the heading the tick gives with neither held (the heading
\* before the tick, unless the tick ended in a reset to the start pose).
C19_NoTurnAtRest ==
  (Ticked /\ Speed(last.before) <= 100)
    => /\ last.keys # WithoutTurn(last.keys)
            => update(last.before, WithoutTurn(last.keys), trk,
                      game_settings).car.angle = last.after.angle
       /\ last.after.angle = IF last.outcome = "Reset"
                               THEN last.before.start_angle
                               ELSE last.before.angle

\* a tick that started moving, at a speed of at most 0.1, with exactly one
\* turn key held
C19_Witness ==
  /\ Ticked
  /\ Speed(last.before) > 50
  /\ Speed(last.before) <= 100
  /\ last.keys.turn_left # last.keys.turn_right

\* v has the sign of u, or is zero, and is no larger in magnitude
Decayed(u, v) == u * v >= 0 /\ Abs(v) <= Abs(u)

\* C20: with neither accelerate nor brake held and a friction coefficient in
\* (0,1), the integrator step of the tick (friction, then the speed clamp)
\* leaves each velocity component with the same sign (or zero) and a
\* magnitude no larger than before.
C20_CoastingDecays ==
  (Ticked /\ ~last.keys.accelerate /\ ~last.keys.brake
          /\ last.before.friction \in 1..(Scale - 1))
    => /\ Decayed(last.before.velocity_x, last.limited[1])
       /\ Decayed(last.before.velocity_y, last.limited[2])

\* the radii and angles (degrees) of the search
SearchRadii == { 5 + 2 * n : n \in 0..9 }
SearchAngles == { 15 * n : n \in 0..23 }

\* the candidate at the radius and angle around the searching car has no
\* probe point on a wall
CandidateClear(c, radius, angle) ==
  ~CheckCollision(c, c.x + Cos(angle * Scale) * radius,
                     c.y + Sin(angle * Scale) * radius, trk).collision

\* the tick took the candidate at this radius and angle: it is clear, every
\* candidate before it in radius-major order is not, the car stands on it and
\* its velocity is multiplied by 0.3
TookCandidate(c, radius, angle) ==
  /\ last.accepted = << c.x + Cos(angle * Scale) * radius,
                        c.y + Sin(angle * Scale) * radius >>
  /\ CandidateClear(c, radius, angle)
  /\ \A r \in SearchRadii : \A a \in SearchAngles :
       (r < radius \/ (r = radius /\ a < angle)) => ~CandidateClear(c, r, a)
  /\ last.after.velocity_x = Mul(c.velocity_x, 300)
  /\ last.after.velocity_y = Mul(c.velocity_y, 300)

\* C21: the Safe-Position Search ends within the tick after at most
\* 10 x 24 = 240 probe evaluations; it tests the radii 5,7,...,23 and angles
\* 0,15,...,345 in radius-major order, takes the first candidate with no
\* probe point on a wall and multiplies the velocity by 0.3 (Repositioned),
\* and ends in Reset when no candidate is accepted.  The search evaluates
\* the probe once for each candidate up to the one it takes, or for all.
C21_SafeSearchBounded ==
  (Ticked /\ last.candidate # NoCandidate)
    => /\ (IF last.candidate >= 0 THEN last.candidate + 1
                                    ELSE NumRadii * NumAngles) <= 240
       /\ last.outcome \in {"Repositioned", "Reset"}
       /\ last.outcome = "Repositioned"
            => \E radius \in SearchRadii : \E angle \in SearchAngles :
                 TookCandidate(last.search_from, radius, angle)
       /\ last.outcome = "Reset"
            => /\ \A r \in SearchRadii : \A a \in SearchAngles :
                    ~CandidateClear(last.search_from, r, a)
               /\ last.after = KeepOnScreen(reset_to_start(last.search_from))

\* a search that passed over colliding candidates and took one with a later
\* clear candidate in the same ring
C21_Witness ==
  /\ Ticked
  /\ last.outcome = "Repositioned"
  /\ last.candidate > 0
  /\ \E a \in SearchAngles :
       /\ a > 15 * (last.candidate % NumAngles)
       /\ CandidateClear(last.search_from, 5 + 2 * (last.candidate \div NumAngles), a)

\* C22: in the state exposed after every tick, is_reversing is true exactly
\* when the velocity has a negative component along the heading vector and
\* the speed exceeds 0.1.
C22_ReversingFlagFollowsVelocity ==
  Ticked => (last.after.is_reversing <=> IsReversing(last.after))

\* turn_speed x min(speed / max_speed, 1) of the car the tick started with,
\* with the sign swapped while reversing
SignedTurnAmount(c) ==
  (IF IsReversing(c) THEN -1 ELSE 1)
    * Mul(c.turn_speed, Min(TDiv(Speed(c) * Scale, c.max_speed), Scale))

\* C23: on a tick that starts with speed > 0.1, turn-left changes the heading
\* by -turn_amount and turn-right by +turn_amount, with
\* turn_amount = turn_speed x min(speed / max_speed, 1) and both signs swapped
\* while reversing; holding both gives no net change; and the heading change
\* of one tick never exceeds turn_speed in magnitude.  The heading change is
\* the angle after the turning step minus the angle before the tick.
C23_TurnByTurnAmount ==
  (Ticked /\ Speed(last.before) > 100)
    => /\ last.turned - last.before.angle =
            (IF last.keys.turn_right THEN SignedTurnAmount(last.before) ELSE 0)
            - (IF last.keys.turn_left THEN SignedTurnAmount(last.before) ELSE 0)
       /\ Abs(last.turned - last.before.angle) <= last.before.turn_speed

\* the component of velocity v along the wall normal n
Along(v, n) == Mul(v[1], n[1]) + Mul(v[2], n[2])

\* the collision response of the last tick estimated the wall normal and ran
\* its reflection step
ReflectionRan == Ticked /\ last.collision /\ last.damped_speed > 100

\* C24: in the collision response, when the damped velocity points into the
\* wall (dot(velocity, normal) < 0) the reflection step leaves a velocity that
\* no longer points into the wall (dot(velocity, normal) >= 0); when
\* dot(velocity, normal) >= 0 it leaves the velocity unchanged.
C24_ReflectionLeavesWall ==
  ReflectionRan
    => IF Along(last.damped, last.normal) < 0
         THEN Along(<<last.search_from.velocity_x, last.search_from.velocity_y>>,
                    last.normal) >= 0
         ELSE <<last.search_from.velocity_x, last.search_from.velocity_y>>
                = last.damped

\* the position three pixels from the position before the tick along the
\* wall normal
SteppedBack == << last.before.x + 3 * last.normal[1],
                 last.before.y + 3 * last.normal[2] >>

\* C25: Sliding: on a collision tick whose damped speed is > 0.1, if the
\* pose at (position before the tick + 3.0 x wall normal) has no hull probe
\* point on a wall, the tick ends with the vehicle at exactly that
\* stepped-back position, its heading unchanged by the resolver, and no
\* Safe-Position Search is run; the rejected tentative position is not taken.
C25_SlidingEndsSteppedBack ==
  (/\ ReflectionRan
   /\ ~CheckCollision(last.search_from, SteppedBack[1], SteppedBack[2],
                      trk).collision)
    => /\ <<last.after.x, last.after.y>> = SteppedBack
       /\ last.after.angle = last.turned
       /\ last.candidate = NoCandidate
       /\ <<last.after.x, last.after.y>> # last.tentative

\* the offending points the probe of the last tick reported
OffendingPoints ==
  CheckCollision([last.before EXCEPT !.angle = last.turned],
                 last.tentative[1], last.tentative[2], trk).wall_points

\* the sum along axis k of the 8-neighbourhood offsets that lead, with step
\* 2, from the first `used` points to samples that are not on a wall
OffsetSum(points, used, k) ==
  Cardinality({ ij \in (1..Min(used, Len(points))) \X (1..8) :
                  /\ Directions[ij[2]][k] = 1
                  /\ ~IsWallPoint(trk, << points[ij[1]][1] + 2 * Directions[ij[2]][1],
                                         points[ij[1]][2] + 2 * Directions[ij[2]][2] >>) })
  - Cardinality({ ij \in (1..Min(used, Len(points))) \X (1..8) :
                  /\ Directions[ij[2]][k] = -1
                  /\ ~IsWallPoint(trk, << points[ij[1]][1] + 2 * Directions[ij[2]][1],
                                         points[ij[1]][2] + 2 * Directions[ij[2]][2] >>) })

\* (dx, dy) normalised; (0, 0) when it has no length
Normalised(dx, dy) == UnitVector(dx, dy, Hypot(dx, dy), <<0, 0>>)

\* the first of the vectors that is not (0, 0), else the upward vector
FirstNonZero(summed, central) ==
  IF summed # <<0, 0>> THEN summed
  ELSE IF central # <<0, 0>> THEN central
  ELSE <<0, -Scale>>

C27_TickNeverRaises ==
  (last.outcome # "None" /\ last.before.max_speed > 0) => (last.outcome # "Error" /\ ~err)

\* a tick from rest with accelerate, brake and a turn key held that ran into
\* a wall: the turn factor, the brake direction and the clamp scale are not
\* computed
C27_Witness ==
  /\ Ticked
  /\ last.before.max_speed \in {SPORTS_CAR.max_speed, TRUCK.max_speed}
  /\ Speed(last.before) = 0
  /\ last.keys.accelerate /\ last.keys.brake /\ last.keys.turn_left
  /\ last.collision

\* car number car_index has its three tunable stats within the ranges
\* configured in their rows of the settings menu
WithinConfiguredRanges(c, car_index) ==
  \A k \in 1..3 :
    /\ Settings[4 * car_index + k].min_value
         <= c[<<"acceleration", "max_speed", "turn_speed">>[k]]
    /\ c[<<"acceleration", "max_speed", "turn_speed">>[k]]
         <= Settings[4 * car_index + k].max_value

\* C28: after any sequence of adjustments made through SettingsInterface each
\* car's acceleration, max_speed and turn_speed stay within the
\* [min_value, max_value] range configured for that setting, so max_speed
\* never becomes 0 or negative.
C28_SettingsWithinConfiguredRanges ==
  scenario \in SettingsThread
    => /\ WithinConfiguredRanges(car, player - 1)
       /\ WithinConfiguredRanges(other, 2 - player)
       /\ car.max_speed > 0 /\ other.max_speed > 0

\* the factor the collision response multiplies a velocity by: what
\* DampVelocity leaves of a velocity of 1.0
DampingFactor(count, stickiness, bounce) ==
  DampVelocity([NoCar EXCEPT !.velocity_x = Scale], count,
               [wall_stickiness |-> stickiness,
                wall_bounce_factor |-> bounce]).velocity_x

\* the damping factor lies in [0, 1] for every wall_stickiness and
\* wall_bounce_factor in [0, 1] (in steps of 0.05: the ends, the defaults and
\* the steps of the tuning keys) and every count in 1..5
DampingFactorWithinUnit ==
  \A count \in 1..5 : \A s \in 0..20 : \A b \in 0..20 :
    DampingFactor(count, 50 * s, 50 * b) \in 0..Scale

\* C29: on every tick in which the probe reports a collision the speed at
\* the end of the tick is not greater than the speed after the tick's clamp
\* step: the damping factor lies in [0, 1] for every wall_stickiness and
\* wall_bounce_factor in [0, 1] and every count in 1..5, and neither the
\* reflection nor the x0.3 reposition damp nor Reset increases the speed.
C29_CollisionNeverSpeedsUp ==
  /\ DampingFactorWithinUnit
  /\ (Ticked /\ last.collision)
       => /\ Speed(last.after) <= last.clamp_speed
          /\ last.damped_speed <= last.clamp_speed
          /\ Speed(last.search_from) <= last.damped_speed
          /\ Speed(last.after) <= Speed(last.search_from)

\* a collision tick that read a wall_stickiness other than the default,
\* reflected the velocity and left the car moving
C29_Witness ==
  /\ Ticked /\ last.collision /\ ReflectionRan
  /\ game_settings.wall_stickiness # WALL_STICKINESS
  /\ last.limited[2] # 0
  /\ last.damped[2] = Mul(last.limited[2],
                          DampingFactor(last.collision_count,
                                        game_settings.wall_stickiness,
                                        game_settings.wall_bounce_factor))
  /\ last.damped[2] # Mul(last.limited[2],
                          DampingFactor(last.collision_count, WALL_STICKINESS,
                                        game_settings.wall_bounce_factor))
  /\ Speed(last.after) > 0

====
